---- MODULE Spec2Model ----
(***************************************************************************)
(* Model of the SlidR device host-link engine (SlidR.Device/src):          *)
(* Communication::update (frame parser), Communication::send_packet        *)
(* (serializer), the file-transfer handlers, the transfer watchdog task    *)
(* and the download sender task.                                           *)
(***************************************************************************)
EXTENDS Integers, Sequences, FiniteSets, TLC

\* ------------------------------------------------------------------------
\* Bounds of the model
\* ------------------------------------------------------------------------
MaxPayloadLen == 2
TickMs == 500
MaxTicks == 4

\* ------------------------------------------------------------------------
\* Program constants
\* ------------------------------------------------------------------------
MAX_PACKET_SIZE == 4096
TRANSFER_SEND_MAX_CHUNK_SIZE == 512
PACKET_TIMEOUT_MS == 1000
UPLOAD_TEMP_PATH == <<"/upload_temp">>

\* ProtocolConstants.h is not part of the sources at hand; values are chosen
\* pairwise distinct, the identity of a command is all the engine relies on.
START_BYTE == 170
CMD_PING == 16
CMD_ACK == 18
CMD_ERROR == 19
CMD_LOG_MESSAGE == 20
CMD_UPLOAD_IMAGE_START == 32
CMD_UPLOAD_IMAGE_DATA == 33
CMD_UPLOAD_IMAGE_END == 34
CMD_DOWNLOAD_IMAGE_START == 35
CMD_DOWNLOAD_IMAGE_DATA == 36
CMD_DOWNLOAD_IMAGE_END == 37

BUFFER_OVERFLOW == 1
CHECKSUM_ERROR == 2
INVALID_DATA == 3
INVALID_COMMAND == 4
TRANSFER_IN_PROGRESS == 5
FILE_ERROR == 6
TRANSFER_TIMEOUT == 7

\* ------------------------------------------------------------------------
\* Integer helpers (uint8_t / uint16_t / uint32_t arithmetic)
\* ------------------------------------------------------------------------
\* uint32_t values wrap; TLC's integers are 32-bit signed, so the wrap is
\* modelled at 2^30 instead of 2^32.
U32 == 1073741824

RECURSIVE BitXor(_, _)
BitXor(a, b) ==
    IF a = 0 THEN b
    ELSE IF b = 0 THEN a
    ELSE (((a % 2) + (b % 2)) % 2) + 2 * BitXor(a \div 2, b \div 2)

RECURSIVE BitOr(_, _)
BitOr(a, b) ==
    IF a = 0 THEN b
    ELSE IF b = 0 THEN a
    ELSE (IF (a % 2) + (b % 2) > 0 THEN 1 ELSE 0) + 2 * BitOr(a \div 2, b \div 2)

Pow2(n) == CASE n = 0 -> 1 [] n = 1 -> 2 [] n = 2 -> 4 [] n = 3 -> 8
             [] n = 4 -> 16 [] n = 5 -> 32 [] n = 6 -> 64 [] n = 7 -> 128

Min(a, b) == IF a < b THEN a ELSE b

RECURSIVE SeqConcat(_)
SeqConcat(ss) == IF ss = <<>> THEN <<>> ELSE Head(ss) \o SeqConcat(Tail(ss))

\* The exclusive or of data[lo..hi]. The operation is associative, so the
\* range is folded by halves, which keeps the evaluation shallow on frames of
\* full length; the value is that of the loop checksum ^= data[i].
RECURSIVE XorRange(_, _, _)
XorRange(data, lo, hi) ==
    IF lo > hi THEN 0
    ELSE IF lo = hi THEN data[lo]
    ELSE LET mid == (lo + hi) \div 2
         IN  BitXor(XorRange(data, lo, mid), XorRange(data, mid + 1, hi))

\* calculate_checksum that stops one byte short of `size`.
calculate_checksum_short(data, size) == XorRange(data, 0, size - 2)

\* uint8_t checksum = 0; for (i < size) checksum ^= data[i];
\* data is a 0-based array given as a function, size the number of bytes folded.
calculate_checksum(data, size) == XorRange(data, 0, size - 1)

XorFold(s) == XorRange(s, 1, Len(s))

\* Bytes written to Serial by send_packet(command, data, size), size = Len(data)
\* as a uint16_t.
send_packet(command, data) ==
    LET size == Len(data) % 65536
        lo == size % 256
        hi == (size \div 256) % 256
        checksum == BitXor(BitXor(BitXor(command, lo), hi), XorFold(SubSeq(data, 1, size)))
    IN  <<START_BYTE, command, lo, hi>> \o SubSeq(data, 1, size) \o <<checksum>>

\* ------------------------------------------------------------------------
\* State
\* ------------------------------------------------------------------------
VARIABLES
    \* Communication: receive frame state
    in_packet, rx_index, rx_buffer, expected_size,
    last_in_data_time, last_in_packet_time,
    \* Communication: transfer state
    transfer_watchdog_task_handle,   \* "null" or "set"
    transfer_watchdog_reset,         \* binary semaphore, 0 or 1
    transfer_waiting_for_ack,        \* binary semaphore, 0 or 1
    upload_path, file, upload_bytes_received, upload_total_size,
    \* LittleFS
    fs, images_dir,
    \* tasks
    commPc,      \* comm task: "idle" (in vTaskDelay) or "loop" (inside update's while)
    wdPc,        \* transfer watchdog task: "none", "wait", "cancel"
    wdElapsed,   \* ms spent in the watchdog's current xSemaphoreTake
    senders,     \* send-image tasks
    crashed,     \* vTaskDelete was handed the handle of a task that no longer exists
    \* environment
    now,         \* millis()
    serial,      \* bytes in the Serial receive buffer
    hostQ,       \* bytes the host has still to put on the wire
    \* observations
    tx,          \* packets written by send_packet
    delivered,   \* packets built at the end of a frame
    fwd,         \* packets handed to on_packet
    notified,    \* paths handed to on_file_received
    obs,         \* the frame scenario the host is playing
    xf,          \* what is known of the transfer under observation
    \* the serial output, byte by byte
    writers,     \* per task: the bytes of its send_packet call still to be written
    wire         \* the Serial.write made last: task, byte, bytes of its packet to come

codecVars == <<in_packet, rx_index, rx_buffer, expected_size, last_in_data_time,
               last_in_packet_time, commPc, serial, hostQ>>
transferVars == <<transfer_watchdog_task_handle, transfer_watchdog_reset,
                  transfer_waiting_for_ack, upload_path, file, upload_bytes_received,
                  upload_total_size, fs, images_dir, wdPc, wdElapsed, senders, crashed>>
logVars == <<tx, delivered, fwd, notified>>
wireVars == <<writers, wire>>
vars == <<codecVars, transferVars, logVars, now, obs, xf, wireVars>>

\* The tasks that call send_packet: comm_task (update and on_packet), the
\* transfer watchdog task, the send image task and segment_task.
Writers == {"comm", "watchdog", "sender", "segment"}
NoWrite == [by |-> "none", byte |-> 0, left |-> 0]

\* ------------------------------------------------------------------------
\* Storage (LittleFS) and file handles
\* ------------------------------------------------------------------------
NoPath == <<>>
Indices == {0, 1}
get_image_path(index) == <<"/images/img-", index, ".bin">>
Paths == {UPLOAD_TEMP_PATH} \cup {get_image_path(i) : i \in Indices}
Absent == [exists |-> FALSE, data |-> <<>>]
ClosedFile == [open |-> FALSE, path |-> NoPath, mode |-> "-", pos |-> 0]

\* Outcomes of the storage calls and of a vTaskDelete on a stale handle made
\* during one handler; at most one of them goes wrong. The field `fault` of
\* the working record tells whether a storage call of the handler failed.
AllOk == [openOk |-> TRUE, writeOk |-> TRUE, removeOk |-> TRUE, mkdirOk |-> TRUE,
          renameOk |-> TRUE, readOk |-> TRUE, ubCrash |-> FALSE]
Oracles == {AllOk,
            [AllOk EXCEPT !.openOk = FALSE], [AllOk EXCEPT !.writeOk = FALSE],
            [AllOk EXCEPT !.removeOk = FALSE], [AllOk EXCEPT !.mkdirOk = FALSE],
            [AllOk EXCEPT !.renameOk = FALSE], [AllOk EXCEPT !.readOk = FALSE],
            [AllOk EXCEPT !.ubCrash = TRUE]}

\* The program state a handler works on, as one record.
Cur ==
    [handle |-> transfer_watchdog_task_handle, wdSem |-> transfer_watchdog_reset,
     ackSem |-> transfer_waiting_for_ack, upload_path |-> upload_path, file |-> file,
     received |-> upload_bytes_received, total |-> upload_total_size,
     fs |-> fs, images_dir |-> images_dir, wdPc |-> wdPc, wdElapsed |-> wdElapsed,
     senders |-> senders, crashed |-> crashed, tx |-> tx, delivered |-> delivered,
     fwd |-> fwd, notified |-> notified, fault |-> FALSE]

FsExists(t, path) == path \in Paths /\ t.fs[path].exists

\* File::close()
FileClose(t) == [t EXCEPT !.file = ClosedFile]

\* LittleFS.remove(path)
FsRemove(t, path, o) ==
    IF ~FsExists(t, path) \/ ~o.removeOk THEN [t |-> [t EXCEPT !.fault = TRUE], ok |-> FALSE]
    ELSE [t |-> [t EXCEPT !.fs[path] = Absent], ok |-> TRUE]

\* LittleFS.rename(from, to)
FsRename(t, from, to, o) ==
    IF ~FsExists(t, from) \/ to \notin Paths \/ (Len(to) > 1 /\ ~t.images_dir) \/ ~o.renameOk
    THEN [t |-> [t EXCEPT !.fault = TRUE], ok |-> FALSE]
    ELSE [t |-> [t EXCEPT !.fs[to] = t.fs[from], !.fs[from] = Absent], ok |-> TRUE]

\* _file = LittleFS.open(path, mode): the handle held before is dropped.
FsOpen(t, path, mode, o) ==
    LET can == IF mode = "w" THEN path \in Paths /\ (Len(path) = 1 \/ t.images_dir)
               ELSE FsExists(t, path)
    IN  IF ~can \/ ~o.openOk THEN [t EXCEPT !.file = ClosedFile, !.fault = TRUE]
        ELSE [t EXCEPT !.file = [open |-> TRUE, path |-> path, mode |-> mode, pos |-> 0],
                       !.fs[path] = IF mode = "w" THEN [exists |-> TRUE, data |-> <<>>]
                                    ELSE @]

\* _file.write(data, size): the number of bytes stored.
FileWrite(t, data, o) ==
    LET n == IF ~t.file.open \/ t.file.mode # "w" THEN 0
             ELSE IF o.writeOk \/ Len(data) = 0 THEN Len(data)
             ELSE Len(data) - 1
        bad == n # Len(data)
    IN  [t |-> IF n = 0 THEN [t EXCEPT !.fault = @ \/ bad]
               ELSE [t EXCEPT !.fs[t.file.path].data = @ \o SubSeq(data, 1, n),
                              !.file.pos = @ + n, !.fault = @ \/ bad],
         written |-> n]

\* _file.size() - _file.position()
FileAvailable(t) ==
    IF t.file.open /\ t.file.mode = "r" /\ FsExists(t, t.file.path)
    THEN Len(t.fs[t.file.path].data) - t.file.pos
    ELSE 0

\* ------------------------------------------------------------------------
\* Communication: sending
\* ------------------------------------------------------------------------
Pkt(command, data) == [command |-> command, data |-> data]

\* What send_packet puts on the wire, kept as the packet (its bytes are
\* send_packet(command, data)).
Send(t, command, data) == [t EXCEPT !.tx = Append(@, Pkt(command, data))]
send_err(t, code) == Send(t, CMD_ERROR, <<code>>)
\* The text of a log message is not kept.
send_log(t) == Send(t, CMD_LOG_MESSAGE, <<>>)

\* ------------------------------------------------------------------------
\* Communication: transfer engine
\* ------------------------------------------------------------------------
transfer_in_progress(t) == t.handle # "null"

start_transfer_watchdog(t) ==
    [t EXCEPT !.wdSem = 1, !.wdPc = "wait", !.wdElapsed = 0, !.handle = "set"]

\* vTaskDelete(handle) of a task that already deleted itself is undefined:
\* it either passes unnoticed or brings the firmware down.
stop_transfer_watchdog(t, o) ==
    IF t.handle # "null"
    THEN [t EXCEPT !.handle = "null", !.wdPc = "none", !.wdElapsed = 0,
                   !.crashed = @ \/ (t.wdPc = "none" /\ o.ubCrash)]
    ELSE t

cancel_transfer(t, o) ==
    LET t1 == IF t.file.open THEN FsRemove(FileClose(t), UPLOAD_TEMP_PATH, o).t ELSE t
    IN  [t1 EXCEPT !.upload_path = NoPath]

\* exists(parent) || mkdir(parent) for the one level of directories image
\* paths have; a path directly under the root has nothing to create.
ensure_parent_dirs(t, full_path, o) ==
    IF Len(full_path) <= 1 THEN [t |-> t, ok |-> TRUE]
    ELSE IF t.images_dir THEN [t |-> t, ok |-> TRUE]
    ELSE IF ~o.mkdirOk THEN [t |-> [t EXCEPT !.fault = TRUE], ok |-> FALSE]
    ELSE [t |-> [t EXCEPT !.images_dir = TRUE], ok |-> TRUE]

finish_file_transfer(t, o) ==
    LET t1 == stop_transfer_watchdog(t, o)
        t2 == FileClose(t1)
        rm == FsRemove(t2, t2.upload_path, o)
        t3 == IF FsExists(t2, t2.upload_path) THEN rm.t ELSE t2
        dirs == ensure_parent_dirs(t3, t3.upload_path, o)
        mv == FsRename(dirs.t, UPLOAD_TEMP_PATH, t3.upload_path, o)
    IN  IF ~t1.file.open THEN t1
        ELSE IF FsExists(t2, t2.upload_path) /\ ~rm.ok THEN send_err(send_log(rm.t), FILE_ERROR)
        ELSE IF ~dirs.ok THEN send_err(send_log(dirs.t), FILE_ERROR)
        ELSE IF ~mv.ok THEN send_err(send_log(mv.t), FILE_ERROR)
        ELSE mv.t

MaxSenders == 1
NoSender == [pc |-> "none", elapsed |-> 0]
FreeSlots(t) == {s \in 1..MaxSenders : t.senders[s].pc = "none"}

\* The start that clears the byte count before it looks for a transfer in
\* progress.
start_file_upload_eager(t, path, total_size, o) ==
    IF transfer_in_progress(t)
    THEN [t |-> send_err([t EXCEPT !.received = 0], TRANSFER_IN_PROGRESS), ret |-> FALSE]
    ELSE LET t1 == FsOpen(t, UPLOAD_TEMP_PATH, "w", o)
         IN  IF ~t1.file.open
             THEN [t |-> send_err(t1, FILE_ERROR), ret |-> FALSE]
             ELSE [t |-> [start_transfer_watchdog([t1 EXCEPT !.upload_path = path])
                            EXCEPT !.total = total_size, !.received = 0],
                   ret |-> TRUE]

\* The start that reports success although the staging file did not open.
start_file_upload_blind(t, path, total_size, o) ==
    IF transfer_in_progress(t)
    THEN [t |-> send_err(t, TRANSFER_IN_PROGRESS), ret |-> FALSE]
    ELSE LET t1 == FsOpen(t, UPLOAD_TEMP_PATH, "w", o)
         IN  IF ~t1.file.open
             THEN [t |-> send_err(t1, FILE_ERROR), ret |-> TRUE]
             ELSE [t |-> [start_transfer_watchdog([t1 EXCEPT !.upload_path = path])
                            EXCEPT !.total = total_size, !.received = 0],
                   ret |-> TRUE]

start_file_upload(t, path, total_size, o) ==
    IF transfer_in_progress(t)
    THEN [t |-> send_err(t, TRANSFER_IN_PROGRESS), ret |-> FALSE]
    ELSE LET t1 == FsOpen(t, UPLOAD_TEMP_PATH, "w", o)
         IN  IF ~t1.file.open
             THEN [t |-> send_err(t1, FILE_ERROR), ret |-> FALSE]
             ELSE [t |-> [start_transfer_watchdog([t1 EXCEPT !.upload_path = path])
                            EXCEPT !.total = total_size, !.received = 0],
                   ret |-> TRUE]

\* The chunk handler that counts the bytes of a short write.
receive_file_data_counting(t, data, o) ==
    IF ~t.file.open
    THEN [t |-> send_err(send_log(finish_file_transfer(t, o)), FILE_ERROR), ret |-> FALSE]
    ELSE LET t1 == [t EXCEPT !.wdSem = 1]
             w == FileWrite(t1, data, o)
             t2 == [w.t EXCEPT !.received = (@ + w.written) % U32]
         IN  IF w.written # Len(data)
             THEN [t |-> send_err(cancel_transfer(stop_transfer_watchdog(send_log(t2), o), o),
                                  FILE_ERROR),
                   ret |-> FALSE]
             ELSE [t |-> t2, ret |-> TRUE]

receive_file_data(t, data, o) ==
    IF ~t.file.open
    THEN [t |-> send_err(send_log(finish_file_transfer(t, o)), FILE_ERROR), ret |-> FALSE]
    ELSE LET t1 == [t EXCEPT !.wdSem = 1]
             w == FileWrite(t1, data, o)
         IN  IF w.written # Len(data)
             THEN [t |-> send_err(cancel_transfer(stop_transfer_watchdog(send_log(w.t), o), o),
                                  FILE_ERROR),
                   ret |-> FALSE]
             ELSE [t |-> [w.t EXCEPT !.received = (@ + w.written) % U32], ret |-> TRUE]

\* The start of a download that leaves _transfer_waiting_for_ack as it is.
start_file_download_undrained(t, path, o) ==
    LET t1 == FsOpen(t, path, "r", o)
        s == CHOOSE x \in FreeSlots(t) : \A y \in FreeSlots(t) : x <= y
    IN  IF ~t1.file.open THEN send_err(send_log(t1), FILE_ERROR)
        ELSE [t1 EXCEPT !.wdSem = 1, !.senders[s] = [pc |-> "start", elapsed |-> 0]]

\* xTaskCreate of the "Send Image Task" takes the lowest free task slot.
start_file_download(t, path, o) ==
    LET t1 == FsOpen(t, path, "r", o)
        s == CHOOSE x \in FreeSlots(t) : \A y \in FreeSlots(t) : x <= y
    IN  IF ~t1.file.open THEN send_err(send_log(t1), FILE_ERROR)
        ELSE [t1 EXCEPT !.ackSem = 0, !.wdSem = 1,
                        !.senders[s] = [pc |-> "start", elapsed |-> 0]]

\* memcpy(&total_bytes, packet.data.data() + 1, 4) on a little-endian target
LE32(data) == data[2] + 256 * data[3] + 65536 * data[4] + 16777216 * data[5]

\* The handler that accepts a download request longer than one byte.
handle_file_transfer_lenient(t, packet, o) ==
    CASE packet.command = CMD_UPLOAD_IMAGE_START ->
            IF Len(packet.data) # 5 THEN [t |-> send_err(t, INVALID_DATA), ret |-> TRUE]
            ELSE LET r == start_file_upload(t, get_image_path(packet.data[1]),
                                            LE32(packet.data), o)
                 IN  [t |-> IF r.ret THEN Send(r.t, CMD_ACK, <<>>) ELSE r.t, ret |-> TRUE]
      [] packet.command = CMD_UPLOAD_IMAGE_DATA ->
            IF ~transfer_in_progress(t)
            THEN [t |-> send_err(send_log(t), INVALID_COMMAND), ret |-> TRUE]
            ELSE LET r == receive_file_data(t, packet.data, o)
                 IN  [t |-> IF r.ret THEN Send(r.t, CMD_ACK, <<>>) ELSE r.t, ret |-> TRUE]
      [] packet.command = CMD_UPLOAD_IMAGE_END ->
            IF ~transfer_in_progress(t)
            THEN [t |-> send_err(send_log(t), INVALID_COMMAND), ret |-> TRUE]
            ELSE IF t.received # t.total
            THEN [t |-> send_err(cancel_transfer(send_log(t), o), INVALID_COMMAND),
                  ret |-> TRUE]
            ELSE LET t1 == Send(finish_file_transfer(t, o), CMD_ACK, <<>>)
                 IN  [t |-> [t1 EXCEPT !.notified = Append(@, t1.upload_path)],
                      ret |-> TRUE]
      [] packet.command = CMD_DOWNLOAD_IMAGE_START ->
            IF Len(packet.data) < 1 THEN [t |-> send_err(t, INVALID_DATA), ret |-> TRUE]
            ELSE [t |-> start_file_download(t, get_image_path(packet.data[1]), o),
                  ret |-> TRUE]
      [] packet.command = CMD_ACK ->
            IF ~transfer_in_progress(t) THEN [t |-> t, ret |-> FALSE]
            ELSE [t |-> [t EXCEPT !.ackSem = 1], ret |-> TRUE]
      [] OTHER -> [t |-> t, ret |-> FALSE]

handle_file_transfer(t, packet, o) ==
    CASE packet.command = CMD_UPLOAD_IMAGE_START ->
            IF Len(packet.data) # 5 THEN [t |-> send_err(t, INVALID_DATA), ret |-> TRUE]
            ELSE LET r == start_file_upload(t, get_image_path(packet.data[1]),
                                            LE32(packet.data), o)
                 IN  [t |-> IF r.ret THEN Send(r.t, CMD_ACK, <<>>) ELSE r.t, ret |-> TRUE]
      [] packet.command = CMD_UPLOAD_IMAGE_DATA ->
            IF ~transfer_in_progress(t)
            THEN [t |-> send_err(send_log(t), INVALID_COMMAND), ret |-> TRUE]
            ELSE LET r == receive_file_data(t, packet.data, o)
                 IN  [t |-> IF r.ret THEN Send(r.t, CMD_ACK, <<>>) ELSE r.t, ret |-> TRUE]
      [] packet.command = CMD_UPLOAD_IMAGE_END ->
            IF ~transfer_in_progress(t)
            THEN [t |-> send_err(send_log(t), INVALID_COMMAND), ret |-> TRUE]
            ELSE IF t.received # t.total
            THEN [t |-> send_err(cancel_transfer(send_log(t), o), INVALID_COMMAND),
                  ret |-> TRUE]
            ELSE LET t1 == Send(finish_file_transfer(t, o), CMD_ACK, <<>>)
                 IN  [t |-> [t1 EXCEPT !.notified = Append(@, t1.upload_path)],
                      ret |-> TRUE]
      [] packet.command = CMD_DOWNLOAD_IMAGE_START ->
            IF Len(packet.data) # 1 THEN [t |-> send_err(t, INVALID_DATA), ret |-> TRUE]
            ELSE [t |-> start_file_download(t, get_image_path(packet.data[1]), o),
                  ret |-> TRUE]
      [] packet.command = CMD_ACK ->
            IF ~transfer_in_progress(t) THEN [t |-> t, ret |-> FALSE]
            ELSE [t |-> [t EXCEPT !.ackSem = 1], ret |-> TRUE]
      [] OTHER -> [t |-> t, ret |-> FALSE]

\* The dispatch that hands every packet to on_packet as well.
Dispatch_always(t, packet, o) ==
    LET r == handle_file_transfer([t EXCEPT !.delivered = Append(@, packet)], packet, o)
    IN  [r.t EXCEPT !.fwd = Append(@, packet)]

\* update(), lines 54-61: a frame with a matching checksum becomes a packet,
\* offered to handle_file_transfer and, if that declines, to on_packet.
Dispatch(t, packet, o) ==
    LET r == handle_file_transfer([t EXCEPT !.delivered = Append(@, packet)], packet, o)
    IN  IF r.ret THEN r.t ELSE [r.t EXCEPT !.fwd = Append(@, packet)]

\* The sender with a chunk one byte over the limit.
send_image_task_long(t, s, o) ==
    LET n == Min(TRANSFER_SEND_MAX_CHUNK_SIZE + 1, FileAvailable(t))
        content == t.fs[t.file.path].data
        buffer == SubSeq(content, t.file.pos + 1, t.file.pos + n)
    IN  IF t.senders[s].pc = "start" /\ ~t.file.open
        THEN [send_err(send_log(t), FILE_ERROR) EXCEPT !.senders[s] = NoSender]
        ELSE IF FileAvailable(t) > 0
        THEN IF ~o.readOk
             THEN [FileClose(send_err(send_log(t), FILE_ERROR))
                     EXCEPT !.senders[s] = NoSender, !.fault = TRUE]
             ELSE [Send(t, CMD_DOWNLOAD_IMAGE_DATA, buffer)
                     EXCEPT !.file.pos = @ + n,
                            !.senders[s] = [pc |-> "wait", elapsed |-> 0]]
        ELSE [Send(FileClose(t), CMD_DOWNLOAD_IMAGE_END, <<>>)
                EXCEPT !.senders[s] = NoSender]

\* The sender that sends a chunk and leaves the read position where it was.
send_image_task_stalled(t, s, o) ==
    LET n == Min(TRANSFER_SEND_MAX_CHUNK_SIZE, FileAvailable(t))
        content == t.fs[t.file.path].data
        buffer == SubSeq(content, t.file.pos + 1, t.file.pos + n)
    IN  IF t.senders[s].pc = "start" /\ ~t.file.open
        THEN [send_err(send_log(t), FILE_ERROR) EXCEPT !.senders[s] = NoSender]
        ELSE IF FileAvailable(t) > 0
        THEN IF ~o.readOk
             THEN [FileClose(send_err(send_log(t), FILE_ERROR))
                     EXCEPT !.senders[s] = NoSender, !.fault = TRUE]
             ELSE [Send(t, CMD_DOWNLOAD_IMAGE_DATA, buffer)
                     EXCEPT !.senders[s] = [pc |-> "wait", elapsed |-> 0]]
        ELSE [Send(FileClose(t), CMD_DOWNLOAD_IMAGE_END, <<>>)
                EXCEPT !.senders[s] = NoSender]

\* One pass of send_image_task from where task s stands to its next
\* blocking point (the wait for an acknowledgement) or to its end.
send_image_task(t, s, o) ==
    LET n == Min(TRANSFER_SEND_MAX_CHUNK_SIZE, FileAvailable(t))
        content == t.fs[t.file.path].data
        buffer == SubSeq(content, t.file.pos + 1, t.file.pos + n)
    IN  IF t.senders[s].pc = "start" /\ ~t.file.open
        THEN [send_err(send_log(t), FILE_ERROR) EXCEPT !.senders[s] = NoSender]
        ELSE IF FileAvailable(t) > 0
        THEN IF ~o.readOk
             THEN [FileClose(send_err(send_log(t), FILE_ERROR))
                     EXCEPT !.senders[s] = NoSender, !.fault = TRUE]
             ELSE [Send(t, CMD_DOWNLOAD_IMAGE_DATA, buffer)
                     EXCEPT !.file.pos = @ + n,
                            !.senders[s] = [pc |-> "wait", elapsed |-> 0]]
        ELSE [Send(FileClose(t), CMD_DOWNLOAD_IMAGE_END, <<>>)
                EXCEPT !.senders[s] = NoSender]

\* ------------------------------------------------------------------------
\* Communication::update, frame parser
\* ------------------------------------------------------------------------
EmptyBuffer == [i \in {} |-> 0]

\* The idle check with the window taken for seconds.
FrameTimedOut_seconds(active, t_now, t_last) ==
    active /\ ((t_now - t_last) % U32) > PACKET_TIMEOUT_MS * 1000

\* _in_packet && (millis() - _last_in_data_time > PACKET_TIMEOUT_MS), uint32_t
FrameTimedOut(active, t_now, t_last) ==
    active /\ ((t_now - t_last) % U32) > PACKET_TIMEOUT_MS

\* _expected_size = _rx_buffer[1] | (_rx_buffer[2] << 8), a uint16_t
ExpectedSize(buffer) == BitOr(buffer[1], buffer[2] * 256) % 65536

\* The length check without the four bytes of framing.
SizeOverflow_whole(size) == size > MAX_PACKET_SIZE

SizeOverflow(size) == size > MAX_PACKET_SIZE - 4

\* The end of frame looked for one byte late.
FrameComplete_late(index, size) == index >= 3 /\ index = size + 5

FrameComplete(index, size) == index >= 3 /\ index = size + 4

\* The payload taken one byte early.
PacketOf_early(buffer, size) == Pkt(buffer[0], [i \in 1..size |-> buffer[1 + i]])

\* packet_t{ _rx_buffer[0], _rx_buffer + 3 .. _rx_buffer + 3 + _expected_size }
PacketOf(buffer, size) == Pkt(buffer[0], [i \in 1..size |-> buffer[2 + i]])

\* Writes the record of a handler's result back to the variables.
Assign(t) ==
    /\ transfer_watchdog_task_handle' = t.handle
    /\ transfer_watchdog_reset' = t.wdSem
    /\ transfer_waiting_for_ack' = t.ackSem
    /\ upload_path' = t.upload_path
    /\ file' = t.file
    /\ upload_bytes_received' = t.received
    /\ upload_total_size' = t.total
    /\ fs' = t.fs
    /\ images_dir' = t.images_dir
    /\ wdPc' = t.wdPc
    /\ wdElapsed' = t.wdElapsed
    /\ senders' = t.senders
    /\ crashed' = t.crashed
    /\ tx' = t.tx
    /\ delivered' = t.delivered
    /\ fwd' = t.fwd
    /\ notified' = t.notified

\* update(), lines 19-23: the idle check made once, before the read loop.
\* A call that finds neither a timed-out frame nor a byte changes nothing and
\* is left out.
UpdateEnter ==
    /\ ~crashed
    /\ commPc = "idle"
    /\ serial # <<>> \/ FrameTimedOut(in_packet, now, last_in_data_time)
    /\ commPc' = "loop"
    /\ IF FrameTimedOut(in_packet, now, last_in_data_time)
       THEN /\ tx' = Append(tx, Pkt(CMD_LOG_MESSAGE, <<>>))
            /\ in_packet' = FALSE
            /\ rx_index' = 0
            /\ rx_buffer' = EmptyBuffer
            /\ obs' = [obs EXCEPT !.timeouts = Min(@ + 1, 2)]
       ELSE UNCHANGED <<tx, in_packet, rx_index, rx_buffer, obs>>
    /\ UNCHANGED <<wireVars, expected_size, last_in_data_time, last_in_packet_time, serial, hostQ,
                   transferVars, delivered, fwd, notified, now, xf>>

\* The parser's members and the handler record, as one record.
ParserCur ==
    [in_packet |-> in_packet, rx_index |-> rx_index, rx_buffer |-> rx_buffer,
     expected_size |-> expected_size, last_in_data_time |-> last_in_data_time,
     last_in_packet_time |-> last_in_packet_time, t |-> Cur]

ParserAssign(p) ==
    /\ in_packet' = p.in_packet
    /\ rx_index' = p.rx_index
    /\ rx_buffer' = p.rx_buffer
    /\ expected_size' = p.expected_size
    /\ last_in_data_time' = p.last_in_data_time
    /\ last_in_packet_time' = p.last_in_packet_time
    /\ Assign(p.t)

\* update(), lines 26-71: one turn of the read loop on the byte Serial.read()
\* gives. A store past the end of _rx_buffer is undefined: it brings the
\* firmware down or lands outside the array.
ByteStep(p, byte, o) ==
    LET buffer == (p.rx_index :> byte) @@ p.rx_buffer
        index == p.rx_index + 1
        size == IF index = 3 THEN ExpectedSize(buffer) ELSE p.expected_size
        packet == PacketOf(buffer, size)
        report(code) == [p.t EXCEPT !.tx = @ \o <<Pkt(CMD_LOG_MESSAGE, <<>>),
                                                   Pkt(CMD_ERROR, <<code>>)>>]
    IN  IF ~p.in_packet /\ byte = START_BYTE
        THEN [p EXCEPT !.rx_index = 0, !.rx_buffer = EmptyBuffer, !.in_packet = TRUE,
                       !.last_in_data_time = now]
        ELSE IF ~p.in_packet THEN p
        ELSE IF p.rx_index >= MAX_PACKET_SIZE /\ o.ubCrash
        THEN [p EXCEPT !.t.crashed = TRUE]
        ELSE IF index = 3 /\ SizeOverflow(size)
        THEN [p EXCEPT !.last_in_data_time = now, !.expected_size = size,
                       !.rx_index = index, !.rx_buffer = buffer, !.in_packet = FALSE,
                       !.t = report(BUFFER_OVERFLOW)]
        ELSE IF FrameComplete(index, size)
        THEN IF buffer[index - 1] = calculate_checksum(buffer, index - 1)
             THEN [p EXCEPT !.last_in_data_time = now, !.expected_size = size,
                            !.rx_index = 0, !.rx_buffer = EmptyBuffer, !.in_packet = FALSE,
                            !.last_in_packet_time = now,
                            !.t = Dispatch(p.t, packet, o)]
             ELSE [p EXCEPT !.last_in_data_time = now, !.expected_size = size,
                            !.rx_index = 0, !.rx_buffer = EmptyBuffer, !.in_packet = FALSE,
                            !.t = report(CHECKSUM_ERROR)]
        ELSE [p EXCEPT !.last_in_data_time = now, !.expected_size = size,
                       !.rx_index = index, !.rx_buffer = buffer]

\* update(), lines 25-72: one turn of the read loop.
UpdateByte ==
    /\ ~crashed
    /\ commPc = "loop"
    /\ serial # <<>>
    /\ serial' = Tail(serial)
    /\ \E p \in {ByteStep(ParserCur, Head(serial), o) : o \in Oracles} : ParserAssign(p)
    /\ UNCHANGED <<wireVars, commPc, hostQ, now, obs, xf>>

\* update() returns when Serial.available() is 0; comm_task then sleeps 10 ms.
UpdateExit ==
    /\ ~crashed
    /\ commPc = "loop"
    /\ serial = <<>>
    /\ commPc' = "idle"
    /\ UNCHANGED <<wireVars, in_packet, rx_index, rx_buffer, expected_size, last_in_data_time,
                   last_in_packet_time, serial, hostQ, transferVars, logVars, now, obs, xf>>

\* ------------------------------------------------------------------------
\* The host side of the serial link
\* ------------------------------------------------------------------------
StartTime == U32 - TickMs
PayloadBytes == {0, START_BYTE}
FrameCommands == {CMD_PING, CMD_UPLOAD_IMAGE_END}
FlipBits == {0, 7}
OverflowLengths == {<<253, 15>>, <<0, 16>>, <<255, 255>>}

RECURSIVE SeqsUpTo(_, _)
SeqsUpTo(S, n) ==
    IF n = 0 THEN {<<>>}
    ELSE LET shorter == SeqsUpTo(S, n - 1)
         IN  shorter \cup {Append(s, x) : s \in {q \in shorter : Len(q) = n - 1}, x \in S}

Payloads == SeqsUpTo(PayloadBytes, MaxPayloadLen)

NoObs == [kind |-> "none", command |-> 0, payload |-> <<>>, pos |-> 0,
          clean |-> TRUE, stale |-> FALSE, timeouts |-> 0, prev |-> "none", count |-> 0]

\* What is known of the upload accepted last (up, path, total, sent, faults,
\* timeouts, dl), of the step taken last, where the output is recorded, of
\* the packets the sender tasks emitted and, where time is kept in steps of
\* KickTickMs, of the time since the last chunk or acknowledgement (gap);
\* drained tells that the packet received last started a download with an
\* acknowledgement pending.
NoXf == [last |-> "init", up |-> "none", path |-> NoPath, total |-> 0, sent |-> <<>>,
         faults |-> FALSE, timeouts |-> 0, dl |-> FALSE,
         watch |-> FALSE, out |-> <<>>, gap |-> 0, drained |-> FALSE]

LinkQuiet == hostQ = <<>> /\ serial = <<>> /\ commPc = "idle"

\* What the previous scenario leaves to be known of: an oversize header that
\* was fed to an inactive parser and not cut short by the idle timeout.
PrevKind ==
    IF obs.kind = "overflow" /\ obs.clean /\ obs.timeouts = 0 THEN "overflow" ELSE "other"

\* The host puts `bytes` on the wire; the observation logs start afresh.
\* Only the first frame of a run is damaged, oversize or cut short; the
\* frames after it are well-formed.
HostBegin(kind, command, payload, pos, bytes) ==
    /\ ~crashed
    /\ LinkQuiet
    /\ obs.count = 0 \/ (obs.count = 1 /\ kind = "valid")
    /\ hostQ' = bytes
    /\ obs' = [kind |-> kind, command |-> command, payload |-> payload, pos |-> pos,
               clean |-> ~in_packet,
               stale |-> in_packet /\ ((now - last_in_data_time) % U32) > PACKET_TIMEOUT_MS,
               timeouts |-> 0, prev |-> PrevKind, count |-> obs.count + 1]
    /\ tx' = <<>>
    /\ delivered' = <<>>
    /\ fwd' = <<>>
    /\ notified' = <<>>
    /\ UNCHANGED <<wireVars, in_packet, rx_index, rx_buffer, expected_size, last_in_data_time,
                   last_in_packet_time, commPc, serial, transferVars, now, xf>>

\* A well-formed frame, as send_packet writes it.
HostFrame ==
    \E command \in FrameCommands, payload \in Payloads :
        HostBegin("valid", command, payload, 0, send_packet(command, payload))

\* A well-formed frame with one bit of one byte inverted on the way.
HostFlipped ==
    \E command \in FrameCommands, payload \in Payloads, bit \in FlipBits :
        LET frame == send_packet(command, payload)
        IN  \E pos \in 1..Len(frame) :
                HostBegin("flip", command, payload, pos - 1,
                          [frame EXCEPT ![pos] = BitXor(@, Pow2(bit))])

\* The header of a frame that declares more payload than a frame may carry.
HostOverflow ==
    \E command \in FrameCommands, len \in OverflowLengths :
        HostBegin("overflow", command, <<>>, 0, <<START_BYTE, command, len[1], len[2]>>)

\* A transmission that stalls: a proper prefix of a well-formed frame.
HostPartial ==
    \E command \in FrameCommands, payload \in Payloads :
        LET frame == send_packet(command, payload)
        IN  \E k \in 1..(Len(frame) - 1) :
                HostBegin("partial", command, payload, k, SubSeq(frame, 1, k))

\* One byte reaches the Serial receive buffer, once the one before was read.
Arrive ==
    /\ ~crashed
    /\ hostQ # <<>>
    /\ serial = <<>>
    /\ serial' = Append(serial, Head(hostQ))
    /\ hostQ' = Tail(hostQ)
    /\ UNCHANGED <<wireVars, in_packet, rx_index, rx_buffer, expected_size, last_in_data_time,
                   last_in_packet_time, commPc, transferVars, logVars, now, obs, xf>>

TicksPassed == ((now - StartTime) % U32) \div TickMs

InitTransfer ==
    /\ writers = [w \in Writers |-> <<>>]
    /\ wire = NoWrite
    /\ transfer_watchdog_task_handle = "null"
    /\ transfer_watchdog_reset = 0
    /\ transfer_waiting_for_ack = 0
    /\ upload_path = NoPath
    /\ file = ClosedFile
    /\ upload_bytes_received = 0
    /\ upload_total_size = 0
    /\ wdPc = "none"
    /\ wdElapsed = 0
    /\ senders = [s \in 1..MaxSenders |-> NoSender]
    /\ crashed = FALSE

InitCodec ==
    /\ in_packet = FALSE
    /\ rx_index = 0
    /\ rx_buffer = EmptyBuffer
    /\ expected_size = 0
    /\ last_in_data_time = 0
    /\ last_in_packet_time = 0
    /\ commPc = "idle"
    /\ serial = <<>>
    /\ hostQ = <<>>
    /\ now = StartTime
    /\ tx = <<>>
    /\ delivered = <<>>
    /\ fwd = <<>>
    /\ notified = <<>>
    /\ obs = NoObs

\* Time passes while the comm task sleeps and nothing is left to read. With
\* no frame active the parser does not look at the clock, so only the time
\* that passes over an unfinished frame is followed.
TickCodec ==
    /\ ~crashed
    /\ LinkQuiet
    /\ in_packet
    /\ TicksPassed < MaxTicks
    /\ now' = (now + TickMs) % U32
    /\ UNCHANGED <<wireVars, codecVars, transferVars, logVars, obs, xf>>

InitLink ==
    /\ InitCodec
    /\ InitTransfer
    /\ fs = [p \in Paths |-> Absent]
    /\ images_dir = FALSE
    /\ xf = NoXf

NextLink ==
    \/ HostFrame
    \/ HostFlipped
    \/ HostOverflow
    \/ HostPartial
    \/ Arrive
    \/ UpdateEnter
    \/ UpdateByte
    \/ UpdateExit
    \/ TickCodec

\* The frame parser fed by a host over the serial link.
SpecLink == InitLink /\ [][NextLink]_vars

\* ------------------------------------------------------------------------
\* Properties of the frame parser (SpecLink)
\* ------------------------------------------------------------------------
RECURSIVE ErrorCodes(_)
ErrorCodes(log) ==
    IF log = <<>> THEN <<>>
    ELSE IF Head(log).command = CMD_ERROR THEN Head(log).data \o ErrorCodes(Tail(log))
    ELSE ErrorCodes(Tail(log))

SeqRange(s) == {s[i] : i \in 1..Len(s)}
FramingErrors == {BUFFER_OVERFLOW, CHECKSUM_ERROR}
NoFramingError == SeqRange(ErrorCodes(tx)) \cap FramingErrors = {}

\* All bytes of the scenario have been read by update().
Consumed == hostQ = <<>> /\ serial = <<>>
ObsFrame == send_packet(obs.command, obs.payload)
\* Bytes of the scenario's frame read so far.
BytesRead == Len(ObsFrame) - Len(hostQ) - Len(serial)

\* C1: a frame written by send_packet and fed byte by byte to a parser with no
\* frame active is decoded into exactly one packet, with the command and the
\* payload given to send_packet, and no framing error is reported.
C1_RoundTrip ==
    (obs.kind = "valid" /\ obs.clean) =>
        /\ Len(delivered) <= 1
        /\ NoFramingError
        /\ Consumed => delivered = <<Pkt(obs.command, obs.payload)>>

C1_Witness ==
    /\ obs.kind = "valid" /\ obs.clean /\ Consumed
    /\ Len(obs.payload) = MaxPayloadLen
    /\ START_BYTE \in SeqRange(obs.payload)
    /\ delivered = <<Pkt(obs.command, obs.payload)>>

\* C2 as stated: a single-bit flip anywhere but in the two length bytes (the
\* start marker included) yields a checksum or overflow error and no packet.
C2_FlipAnywhereRejected ==
    (obs.kind = "flip" /\ obs.clean /\ obs.pos \notin {2, 3} /\ Consumed) =>
        /\ delivered = <<>>
        /\ SeqRange(ErrorCodes(tx)) \cap FramingErrors # {}

\* C2 amended: a single-bit flip in the command byte, in a payload byte or in
\* the checksum byte yields exactly one CHECKSUM_ERROR and no packet.
C2_FlipInBodyRejected ==
    (obs.kind = "flip" /\ obs.clean /\ obs.pos \notin {0, 2, 3}) =>
        /\ delivered = <<>>
        /\ Consumed => ErrorCodes(tx) = <<CHECKSUM_ERROR>>

C2_Witness ==
    /\ obs.kind = "flip" /\ obs.clean /\ obs.pos = 5 /\ Consumed
    /\ ErrorCodes(tx) = <<CHECKSUM_ERROR>>

\* C3: a header declaring more than 4092 payload bytes is answered with
\* BUFFER_OVERFLOW, gives no packet and leaves no frame active; the next start
\* marker opens a frame at receive index 0 and that frame is decoded.
C3_OverflowRejected ==
    /\ (obs.kind = "overflow" /\ obs.clean /\ Consumed) =>
           /\ ~in_packet
           /\ delivered = <<>>
           /\ ErrorCodes(tx) = <<BUFFER_OVERFLOW>>
    /\ (obs.kind = "valid" /\ obs.prev = "overflow") =>
           /\ in_packet => rx_index = BytesRead - 1
           /\ NoFramingError
           /\ Consumed => delivered = <<Pkt(obs.command, obs.payload)>>

C3_Witness ==
    /\ obs.kind = "valid" /\ obs.prev = "overflow" /\ Consumed
    /\ Len(obs.payload) > 0
    /\ delivered = <<Pkt(obs.command, obs.payload)>>

\* C4: when a frame is active and more than PACKET_TIMEOUT_MS have passed since
\* its last byte, the next update() drops it before it reads a byte, and a
\* well-formed frame sent after that is decoded as one packet of its own.
C4_IdleTimeout ==
    (obs.kind = "valid" /\ obs.stale) =>
        /\ BytesRead > 0 => obs.timeouts >= 1
        /\ (in_packet /\ BytesRead > 0) => rx_index = BytesRead - 1
        /\ NoFramingError
        /\ Consumed => delivered = <<Pkt(obs.command, obs.payload)>>

C4_Witness ==
    /\ obs.kind = "valid" /\ obs.stale /\ Consumed
    /\ Len(obs.payload) > 0
    /\ delivered = <<Pkt(obs.command, obs.payload)>>

\* ------------------------------------------------------------------------
\* The transfer engine driven by whole packets (SpecXfer)
\* ------------------------------------------------------------------------
MaxUploadBytes == 2
XferTickMs == 1000
HostIndices == {0}
UploadSizes == {0, 2}
ChunkData == {<<7>>, <<8, 9>>}
ImageData == <<1, 2>>

U32LE(n) == <<n % 256, (n \div 256) % 256, (n \div 65536) % 256, (n \div 16777216) % 256>>

HostPackets ==
    {Pkt(CMD_UPLOAD_IMAGE_START, <<i>> \o U32LE(n)) : i \in HostIndices, n \in UploadSizes}
    \cup {Pkt(CMD_UPLOAD_IMAGE_START, <<0, 1, 0, 0>>)}
    \cup {Pkt(CMD_UPLOAD_IMAGE_START, <<0>> \o U32LE(2) \o <<0>>)}
    \cup {Pkt(CMD_UPLOAD_IMAGE_DATA, d) : d \in ChunkData}
    \cup {Pkt(CMD_UPLOAD_IMAGE_END, <<>>)}
    \cup {Pkt(CMD_DOWNLOAD_IMAGE_START, <<i>>) : i \in HostIndices}
    \cup {Pkt(CMD_DOWNLOAD_IMAGE_START, <<>>), Pkt(CMD_DOWNLOAD_IMAGE_START, <<0, 0>>)}
    \cup {Pkt(CMD_ACK, <<>>), Pkt(CMD_PING, <<>>)}

Acked(log) == \E i \in 1..Len(log) : log[i].command = CMD_ACK
ErrorIn(log) == \E i \in 1..Len(log) : log[i].command = CMD_ERROR
Reported(log, code) == \E i \in 1..Len(log) : log[i] = Pkt(CMD_ERROR, <<code>>)
SenderAlive(ss) == \E s \in 1..MaxSenders : ss[s].pc # "none"

\* The state a step starts from; the logs hold what the step itself emits.
Fresh == [Cur EXCEPT !.tx = <<>>, !.delivered = <<>>, !.fwd = <<>>, !.notified = <<>>]

\* The bookkeeping after the packet p was dispatched with the result t1. An
\* upload is "active" from its accepted start to its end, "done" or "failed"
\* from then until the next packet arrives.
XfAfterRecv(p, t1) ==
    IF p.command = CMD_UPLOAD_IMAGE_START /\ Len(p.data) = 5 /\ Acked(t1.tx)
    THEN [xf EXCEPT !.last = "recv", !.up = "active", !.path = get_image_path(p.data[1]),
                    !.total = LE32(p.data), !.sent = <<>>, !.faults = FALSE,
                    !.timeouts = 0, !.dl = SenderAlive(t1.senders), !.gap = 0,
                    !.drained = FALSE]
    ELSE [xf EXCEPT
            !.last = "recv",
            !.up = IF xf.up # "active" THEN "none"
                   ELSE IF p.command = CMD_UPLOAD_IMAGE_END
                        THEN IF ErrorIn(t1.tx) THEN "failed" ELSE "done"
                   ELSE IF p.command = CMD_UPLOAD_IMAGE_DATA /\ ~transfer_in_progress(t1)
                        THEN "failed"
                   ELSE @,
            !.sent = IF p.command = CMD_UPLOAD_IMAGE_DATA /\ xf.up = "active"
                     THEN @ \o p.data ELSE @,
            !.faults = @ \/ t1.fault,
            !.dl = @ \/ (p.command = CMD_DOWNLOAD_IMAGE_START),
            !.gap = IF p.command \in {CMD_UPLOAD_IMAGE_DATA, CMD_ACK} THEN 0 ELSE @,
            !.drained = /\ p.command = CMD_DOWNLOAD_IMAGE_START
                        /\ t1.senders # senders
                        /\ transfer_waiting_for_ack = 1]

\* update() has read one complete frame with a matching checksum, one of
\* packets, and dispatches it.
Recv(packets) ==
    \E p \in packets :
        /\ ~crashed
        /\ p.command = CMD_UPLOAD_IMAGE_DATA =>
               upload_bytes_received + Len(p.data) <= MaxUploadBytes
        /\ p.command = CMD_DOWNLOAD_IMAGE_START => FreeSlots(Cur) # {}
        /\ \E t1 \in {Dispatch(Fresh, p, o) : o \in Oracles} :
               /\ Assign(t1)
               /\ xf' = XfAfterRecv(p, t1)
        /\ UNCHANGED <<wireVars, codecVars, now, obs>>

\* A start for another image and of another size, which the host sends only
\* on top of an upload that is active.
SecondStarts == {Pkt(CMD_UPLOAD_IMAGE_START, <<1>> \o U32LE(1))}

RecvPacket == Recv(HostPackets \cup (IF xf.up = "active" THEN SecondStarts ELSE {}))

\* transfer_watchdog_task: xSemaphoreTake(_transfer_watchdog_reset, ...) == pdTRUE
WdTake ==
    /\ ~crashed
    /\ wdPc = "wait"
    /\ transfer_watchdog_reset = 1
    /\ Assign([Fresh EXCEPT !.wdSem = 0, !.wdElapsed = 0])
    /\ xf' = [xf EXCEPT !.last = "other"]
    /\ UNCHANGED <<wireVars, codecVars, now, obs>>

\* transfer_watchdog_task: the take times out, send_err(TRANSFER_TIMEOUT)
WdTimeout ==
    /\ ~crashed
    /\ wdPc = "wait"
    /\ transfer_watchdog_reset = 0
    /\ wdElapsed >= PACKET_TIMEOUT_MS
    /\ Assign([send_err(Fresh, TRANSFER_TIMEOUT) EXCEPT !.wdPc = "cancel", !.wdElapsed = 0])
    /\ xf' = [xf EXCEPT !.last = "wdTimeout", !.timeouts = Min(@ + 1, 2)]
    /\ UNCHANGED <<wireVars, codecVars, now, obs>>

\* transfer_watchdog_task: cancel_transfer(), break; the task deletes itself
\* and leaves _transfer_watchdog_task_handle as it is.
WdCancel ==
    /\ ~crashed
    /\ wdPc = "cancel"
    /\ \E t1 \in {cancel_transfer(Fresh, o) : o \in Oracles} :
           /\ Assign([t1 EXCEPT !.wdPc = "none"])
           /\ xf' = [xf EXCEPT !.last = "wdCancel", !.faults = @ \/ t1.fault,
                               !.up = IF @ = "active" THEN "failed" ELSE @]
    /\ UNCHANGED <<wireVars, codecVars, now, obs>>

\* send_image_task up to its next wait, or to its end
SenderRun ==
    \E s \in 1..MaxSenders :
        /\ ~crashed
        /\ senders[s].pc \in {"start", "loop"}
        /\ \E t1 \in {send_image_task(Fresh, s, o) : o \in Oracles} :
               /\ Assign(t1)
               /\ xf' = [xf EXCEPT !.last = "other", !.faults = @ \/ t1.fault,
                                   !.out = IF xf.watch THEN @ \o t1.tx ELSE @]
        /\ UNCHANGED <<wireVars, codecVars, now, obs>>

\* send_image_task: xSemaphoreTake(_transfer_waiting_for_ack, ...) == pdTRUE,
\* then xSemaphoreGive(_transfer_watchdog_reset)
SenderTake ==
    \E s \in 1..MaxSenders :
        /\ ~crashed
        /\ senders[s].pc = "wait"
        /\ transfer_waiting_for_ack = 1
        /\ Assign([Fresh EXCEPT !.ackSem = 0, !.wdSem = 1,
                                !.senders[s] = [pc |-> "loop", elapsed |-> 0]])
        /\ xf' = [xf EXCEPT !.last = "other"]
        /\ UNCHANGED <<wireVars, codecVars, now, obs>>

\* send_image_task: the wait for an acknowledgement times out
SenderTimeout ==
    \E s \in 1..MaxSenders :
        /\ ~crashed
        /\ senders[s].pc = "wait"
        /\ transfer_waiting_for_ack = 0
        /\ senders[s].elapsed >= PACKET_TIMEOUT_MS
        /\ Assign([Fresh EXCEPT !.senders[s] = [pc |-> "loop", elapsed |-> 0]])
        /\ xf' = [xf EXCEPT !.last = "other"]
        /\ UNCHANGED <<wireVars, codecVars, now, obs>>

\* A task that can run does so before XferTickMs have passed; a task blocked in a
\* take runs as soon as its semaphore is given or its timeout is reached.
TaskReady ==
    \/ wdPc = "cancel"
    \/ wdPc = "wait" /\ (transfer_watchdog_reset = 1 \/ wdElapsed >= PACKET_TIMEOUT_MS)
    \/ \E s \in 1..MaxSenders :
          \/ senders[s].pc \in {"start", "loop"}
          \/ senders[s].pc = "wait" /\ (transfer_waiting_for_ack = 1
                                        \/ senders[s].elapsed >= PACKET_TIMEOUT_MS)

\* XferTickMs pass for the tasks blocked in a take with a timeout.
TickXfer ==
    /\ ~crashed
    /\ ~TaskReady
    /\ wdPc = "wait" \/ SenderAlive(senders)
    /\ Assign([Fresh EXCEPT
                 !.wdElapsed = IF wdPc = "wait" THEN @ + XferTickMs ELSE @,
                 !.senders = [s \in 1..MaxSenders |->
                                IF senders[s].pc = "wait"
                                THEN [senders[s] EXCEPT !.elapsed = @ + XferTickMs]
                                ELSE senders[s]]])
    /\ xf' = [xf EXCEPT !.last = "other"]
    /\ UNCHANGED <<wireVars, codecVars, now, obs>>

InitXfer ==
    /\ InitCodec
    /\ InitTransfer
    /\ \/ /\ images_dir = FALSE
          /\ fs = [p \in Paths |-> Absent]
       \/ /\ images_dir = TRUE
          /\ fs = [p \in Paths |-> IF p = get_image_path(0)
                                   THEN [exists |-> TRUE, data |-> ImageData] ELSE Absent]
    /\ xf = NoXf

NextXfer ==
    \/ RecvPacket
    \/ WdTake
    \/ WdTimeout
    \/ WdCancel
    \/ SenderRun
    \/ SenderTake
    \/ SenderTimeout
    \/ TickXfer

\* The transfer engine, its watchdog task and its sender tasks.
SpecXfer == InitXfer /\ [][NextXfer]_vars

\* ------------------------------------------------------------------------
\* Properties of the transfer engine
\* ------------------------------------------------------------------------
EndPacket == Pkt(CMD_UPLOAD_IMAGE_END, <<>>)
WellFormedStart(p) ==
    \/ p.command = CMD_UPLOAD_IMAGE_START /\ Len(p.data) = 5
    \/ p.command = CMD_DOWNLOAD_IMAGE_START /\ Len(p.data) = 1
Installed(store, path, data) == store[path] = [exists |-> TRUE, data |-> data]
Quiescent == wdPc = "none" /\ ~SenderAlive(senders) /\ ~crashed

\* The step that receives UPLOAD_IMAGE_END for an upload whose chunks all
\* arrived in time and add up to the declared size, no storage call failing.
HappyEnd ==
    /\ xf.up = "active"
    /\ xf.timeouts = 0
    /\ Len(xf.sent) = xf.total
    /\ delivered' = <<EndPacket>>
    /\ ~xf'.faults

HappyOutcome ==
    /\ Installed(fs', xf.path, xf.sent)
    /\ ~fs'[UPLOAD_TEMP_PATH].exists
    /\ transfer_watchdog_task_handle' = "null"
    /\ notified' = <<xf.path>>

\* C5: an accepted upload whose chunks arrive in time and sum to the declared
\* size, with every storage call succeeding, ends at UPLOAD_IMAGE_END with the
\* target holding the chunks in arrival order, /upload_temp gone, the
\* watchdog stopped and on_file_received called once with the target path.
C5_UploadHappyPath == [][HappyEnd => HappyOutcome]_vars

\* The same with no download requested and no sender task alive while the
\* upload is active.
C5_WithoutDownload == [][(HappyEnd /\ ~xf.dl) => HappyOutcome]_vars

\* The step that receives UPLOAD_IMAGE_END for an active upload whose byte
\* count differs from the declared size, no storage call failing.
MismatchEnd ==
    /\ xf.up = "active"
    /\ Len(xf.sent) # xf.total
    /\ delivered' = <<EndPacket>>
    /\ ~xf'.faults

MismatchOutcome ==
    /\ Reported(tx', INVALID_COMMAND)
    /\ ~Acked(tx')
    /\ fs'[xf.path] = fs[xf.path]
    /\ ~fs'[UPLOAD_TEMP_PATH].exists
    /\ notified' = <<>>

\* C6: UPLOAD_IMAGE_END for an active upload whose received byte count differs
\* from the declared size is answered with ERROR(INVALID_COMMAND) and no ACK,
\* leaves the target as it was, removes /upload_temp and notifies nobody.
C6_SizeMismatch == [][MismatchEnd => MismatchOutcome]_vars

\* The same with no download requested and no sender task alive while the
\* upload is active.
C6_WithoutDownload == [][(MismatchEnd /\ ~xf.dl) => MismatchOutcome]_vars

\* C7: a well-formed UPLOAD_IMAGE_START or DOWNLOAD_IMAGE_START that arrives
\* while an upload is active or a sender task is alive is rejected with
\* ERROR(TRANSFER_IN_PROGRESS) and leaves the file handle alone; never are two
\* sender tasks alive, or a sender task alive together with an active upload.
C7_Exclusive ==
    [][/\ \A p \in HostPackets :
             (/\ WellFormedStart(p)
              /\ delivered' = <<p>>
              /\ xf.up = "active" \/ SenderAlive(senders))
             => (Reported(tx', TRANSFER_IN_PROGRESS) /\ file' = file)
       /\ Cardinality({s \in 1..MaxSenders : senders'[s].pc # "none"}) <= 1
       /\ ~(SenderAlive(senders') /\ xf'.up = "active")]_vars

Cancelled == ~file.open /\ ~fs[UPLOAD_TEMP_PATH].exists /\ upload_path = NoPath

\* C8: once the watchdog has found an accepted upload silent for longer than
\* the window and reported ERROR(TRANSFER_TIMEOUT), it cancels the transfer
\* (handle closed, /upload_temp removed, target path cleared); the report is
\* made at most once per transfer.
C8_WatchdogExpiry ==
    [][/\ (wdPc = "cancel" /\ xf.up = "active" /\ ~xf'.faults)
             => (wdPc' = "cancel" \/ Cancelled')
       /\ xf'.timeouts <= 1]_vars

\* The report alone: the watchdog fires at most once per accepted upload.
C8_AtMostOnce == xf.timeouts <= 1

\* C9: after a transfer failure and with no further packet from the host the
\* engine is idle once its tasks have come to rest, and a well-formed
\* UPLOAD_IMAGE_START that follows is accepted with an ACK.
C9_RecoveryToIdle ==
    [][(xf.up = "failed" /\ Quiescent)
          => /\ transfer_watchdog_task_handle = "null"
             /\ \A p \in HostPackets :
                   (p.command = CMD_UPLOAD_IMAGE_START /\ Len(p.data) = 5
                    /\ delivered' = <<p>> /\ ~xf'.faults) => Acked(tx')]_vars

\* ------------------------------------------------------------------------
\* One download on its own (SpecDownload)
\* ------------------------------------------------------------------------
DownloadSizes == {0, 1, 511, 512, 513, 1024, 1025}
FileContent(n) == [i \in 1..n |-> i % 251]
DownloadPath == get_image_path(0)

\* The host asks for the image once and then only acknowledges or pings.
DownloadPackets ==
    IF xf.dl THEN {Pkt(CMD_ACK, <<>>), Pkt(CMD_PING, <<>>)}
    ELSE {Pkt(CMD_DOWNLOAD_IMAGE_START, <<0>>)}

RecvDownload == Recv(DownloadPackets)

InitDownload ==
    /\ InitCodec
    /\ InitTransfer
    /\ images_dir = TRUE
    /\ \E n \in DownloadSizes :
          fs = [p \in Paths |-> IF p = DownloadPath
                                THEN [exists |-> TRUE, data |-> FileContent(n)]
                                ELSE Absent]
    /\ xf = [NoXf EXCEPT !.watch = TRUE]

NextDownload ==
    \/ RecvDownload
    \/ SenderRun
    \/ SenderTimeout
    \/ TickXfer

\* A single download of an image of one of DownloadSizes, its output recorded.
SpecDownload == InitDownload /\ [][NextDownload]_vars

RECURSIVE Flatten(_)
Flatten(packets) ==
    IF packets = <<>> THEN <<>> ELSE Head(packets).data \o Flatten(Tail(packets))

IsPrefix(a, b) == Len(a) <= Len(b) /\ a = SubSeq(b, 1, Len(a))
DataPackets(n) == (n + TRANSFER_SEND_MAX_CHUNK_SIZE - 1) \div TRANSFER_SEND_MAX_CHUNK_SIZE
DownloadDone == xf.dl /\ ~SenderAlive(senders)

\* C10: the sender task of a download whose reads all succeed emits
\* ceil(N/512) DOWNLOAD_IMAGE_DATA packets of 1..512 bytes whose payloads in
\* emission order make up the file, then one DOWNLOAD_IMAGE_END and nothing
\* else; for an empty file the END packet alone.
C10_DownloadChunking ==
    (xf.watch /\ ~xf.faults) =>
        LET content == fs[DownloadPath].data
            k == DataPackets(Len(content))
            n == Len(xf.out)
        IN  /\ n <= k + 1
            /\ \A i \in 1..n :
                  IF i <= k
                  THEN /\ xf.out[i].command = CMD_DOWNLOAD_IMAGE_DATA
                       /\ Len(xf.out[i].data) \in 1..TRANSFER_SEND_MAX_CHUNK_SIZE
                  ELSE xf.out[i] = Pkt(CMD_DOWNLOAD_IMAGE_END, <<>>)
            /\ IsPrefix(Flatten(xf.out), content)
            /\ DownloadDone => (n = k + 1 /\ Flatten(xf.out) = content)

\* A download of 1025 bytes has run to its end: three DATA packets and END.
C10_Witness ==
    /\ xf.watch /\ ~xf.faults /\ DownloadDone
    /\ Len(fs[DownloadPath].data) = 1025
    /\ Len(xf.out) = 4

\* ------------------------------------------------------------------------
\* Acknowledgements, responses and routing
\* ------------------------------------------------------------------------
AckPacket == Pkt(CMD_ACK, <<>>)
SenderWaiting(ss) == \E s \in 1..MaxSenders : ss[s].pc = "wait"

\* C11: an ACK that arrives while a sender task waits for it, no upload being
\* active, is consumed by the transfer engine (not handed to on_packet),
\* releases the sender's wait and kicks the watchdog.
C11_DownloadAck ==
    [][(SenderWaiting(senders) /\ xf.up # "active" /\ delivered' = <<AckPacket>>)
          => (fwd' = <<>> /\ transfer_waiting_for_ack' = 1)]_vars

RECURSIVE CountOf(_, _)
CountOf(log, command) ==
    IF log = <<>> THEN 0
    ELSE (IF Head(log).command = command THEN 1 ELSE 0) + CountOf(Tail(log), command)

UploadRequests == {CMD_UPLOAD_IMAGE_START, CMD_UPLOAD_IMAGE_DATA, CMD_UPLOAD_IMAGE_END}

\* C12: every UPLOAD_IMAGE_START, UPLOAD_IMAGE_DATA or UPLOAD_IMAGE_END is
\* answered with exactly one ACK and no ERROR, or with exactly one ERROR and
\* no ACK; LOG_MESSAGE packets are not counted.
C12_OneResponse ==
    (Len(delivered) = 1 /\ delivered[1].command \in UploadRequests) =>
        \/ CountOf(tx, CMD_ACK) = 1 /\ CountOf(tx, CMD_ERROR) = 0
        \/ CountOf(tx, CMD_ACK) = 0 /\ CountOf(tx, CMD_ERROR) = 1

TransferCommands == UploadRequests \cup {CMD_DOWNLOAD_IMAGE_START}

WatchdogAlive == wdPc # "none"
TransferActive == xf.up = "active" \/ SenderAlive(senders)

\* C14: transfer_in_progress() holds exactly when a watchdog task is alive
\* and exactly when a transfer is active: the handle is never set after the
\* watchdog task has ended, and no watchdog task outlives its transfer.
C14_WatchdogAgreement ==
    ~crashed =>
        /\ transfer_watchdog_task_handle # "null" <=> WatchdogAlive
        /\ transfer_watchdog_task_handle # "null" <=> TransferActive

\* The handle and the task alone: set exactly while the task is alive.
C14_HandleMeansTask == ~crashed => (transfer_watchdog_task_handle # "null" <=> WatchdogAlive)

\* C15: while an upload is active the received byte count never exceeds the
\* declared total size.
C15_ByteBound == xf.up = "active" => upload_bytes_received <= upload_total_size

\* ------------------------------------------------------------------------
\* The receive buffer under the longest frames (SpecBuffer)
\* ------------------------------------------------------------------------
LongestPayload == [i \in 1..(MAX_PACKET_SIZE - 4) |-> i % 2]
OversizeTail == <<0, 1>>

\* A well-formed frame with the largest payload a frame may declare.
HostLong ==
    HostBegin("long", CMD_PING, <<>>, 0, send_packet(CMD_PING, LongestPayload))

\* An oversize header with payload bytes behind it.
HostOversize ==
    \E len \in OverflowLengths :
        HostBegin("oversize", CMD_PING, <<>>, 0,
                  <<START_BYTE, CMD_PING, len[1], len[2]>> \o OversizeTail)

HeaderLen == 4

\* The next bytes reach the Serial receive buffer in one block: the four
\* header bytes (to a parser that is between frames), all but the last byte,
\* or all that is left.
ArriveBlock ==
    /\ ~crashed
    /\ hostQ # <<>>
    /\ serial = <<>>
    /\ \E k \in ({Len(hostQ) - 1, Len(hostQ)} \cup (IF in_packet THEN {} ELSE {HeaderLen}))
                  \cap 1..Len(hostQ) :
          /\ serial' = SubSeq(hostQ, 1, k)
          /\ hostQ' = SubSeq(hostQ, k + 1, Len(hostQ))
    /\ UNCHANGED <<wireVars, in_packet, rx_index, rx_buffer, expected_size, last_in_data_time,
                   last_in_packet_time, commPc, transferVars, logVars, now, obs, xf>>

\* The read loop applied to bytes[lo..hi] in order, the range taken by
\* halves; nothing is read once the firmware is down.
RECURSIVE DrainRange(_, _, _, _, _)
DrainRange(p, bytes, lo, hi, o) ==
    IF lo > hi THEN p
    ELSE IF lo = hi THEN ByteStep(p, bytes[lo], o)
    ELSE LET mid == (lo + hi) \div 2
             left == DrainRange(p, bytes, lo, mid, o)
         IN  IF left.t.crashed THEN left ELSE DrainRange(left, bytes, mid + 1, hi, o)

\* update(), lines 25-72: the read loop runs until Serial.available() is 0.
UpdateDrain ==
    /\ ~crashed
    /\ commPc = "loop"
    /\ serial # <<>>
    /\ serial' = <<>>
    /\ \E p \in {DrainRange(ParserCur, serial, 1, Len(serial), o) : o \in Oracles} :
          ParserAssign(p)
    /\ UNCHANGED <<wireVars, commPc, hostQ, now, obs, xf>>

NextBuffer ==
    \/ HostLong
    \/ HostOversize
    \/ HostFrame
    \/ ArriveBlock
    \/ UpdateEnter
    \/ UpdateDrain
    \/ UpdateExit

\* The frame parser fed with a frame of full length or an oversize one, and a
\* short frame after it, the bytes arriving in blocks.
SpecBuffer == InitLink /\ [][NextBuffer]_vars

\* C16: the receive index never exceeds MAX_PACKET_SIZE, every byte is stored
\* at an index of 0..MAX_PACKET_SIZE-1, and a frame that declares more than
\* MAX_PACKET_SIZE-4 payload bytes is dropped at its third buffered byte, no
\* payload byte being stored.
C16_BufferBound ==
    /\ ~crashed
    /\ rx_index <= MAX_PACKET_SIZE
    /\ in_packet => rx_index <= MAX_PACKET_SIZE - 1
    /\ DOMAIN rx_buffer \subseteq 0..(MAX_PACKET_SIZE - 1)
    /\ (obs.kind = "oversize" /\ obs.count = 1) =>
          /\ rx_index <= 3
          /\ rx_index = 3 => (~in_packet /\ Reported(tx, BUFFER_OVERFLOW))

\* The last byte of a frame of full length is about to be stored at index 4095.
C16_Witness ==
    /\ in_packet
    /\ rx_index = MAX_PACKET_SIZE - 1
    /\ expected_size = MAX_PACKET_SIZE - 4
    /\ serial # <<>>
    /\ commPc = "loop"

\* ------------------------------------------------------------------------
\* The end of an upload and cancellation
\* ------------------------------------------------------------------------
\* C17: UPLOAD_IMAGE_END is answered with an ACK, and on_file_received is
\* called, only when the staged file has been installed at the target path
\* with the uploaded content; a finalize that fails, or that finds the
\* staging handle closed, gives ERROR and neither an ACK nor a notification.
C17_FinalizeOutcome ==
    [][(delivered' = <<EndPacket>> /\ (Acked(tx') \/ notified' # <<>>))
          => /\ xf.up = "active"
             /\ Installed(fs', xf.path, xf.sent)
             /\ ~ErrorIn(tx')]_vars

\* cancel_transfer() called in the current state, every storage call succeeding.
AfterCancel == cancel_transfer(Cur, AllOk)

\* C18: after cancel_transfer() in any state the file handle is closed,
\* /upload_temp does not exist, the target path is empty and the watchdog is
\* not running; a second cancel_transfer() leaves that state unchanged.
C18_CancelComplete ==
    ~crashed =>
        /\ ~AfterCancel.file.open
        /\ ~AfterCancel.fs[UPLOAD_TEMP_PATH].exists
        /\ AfterCancel.upload_path = NoPath
        /\ AfterCancel.handle = "null" /\ AfterCancel.wdPc = "none"
        /\ cancel_transfer(AfterCancel, AllOk) = AfterCancel

\* The second call alone.
C18_Idempotent == ~crashed => cancel_transfer(AfterCancel, AllOk) = AfterCancel

\* The staging file alone.
C18_StagingRemoved == ~crashed => ~AfterCancel.fs[UPLOAD_TEMP_PATH].exists

\* ------------------------------------------------------------------------
\* The watchdog during a download
\* ------------------------------------------------------------------------
\* C19: from a successful start_file_download until the sender has emitted
\* DOWNLOAD_IMAGE_END a watchdog task is running and transfer_in_progress()
\* is true, so that a host that stops acknowledging is met with
\* ERROR(TRANSFER_TIMEOUT) and no further DATA packet.
C19_DownloadWatchdog ==
    (~crashed /\ SenderAlive(senders)) =>
        (transfer_in_progress(Cur) /\ WatchdogAlive)

\* The silent host alone, for SpecDownload, where no acknowledgement is ever
\* taken and a sender is back in its loop only because its wait has run out:
\* the pass that follows sends no DOWNLOAD_IMAGE_DATA packet.
C19_SilenceStopsSender ==
    [][(\E s \in 1..MaxSenders : senders[s].pc = "loop" /\ senders'[s].pc # "loop")
          => CountOf(tx', CMD_DOWNLOAD_IMAGE_DATA) = 0]_vars

\* ------------------------------------------------------------------------
\* Chunks and ends outside an upload
\* ------------------------------------------------------------------------
NoUploadRequest(p) == p.command \in {CMD_UPLOAD_IMAGE_DATA, CMD_UPLOAD_IMAGE_END}

RejectedOutcome ==
    /\ Reported(tx', INVALID_COMMAND)
    /\ ~Acked(tx')
    /\ fs' = fs
    /\ notified' = <<>>

\* C20: an UPLOAD_IMAGE_DATA or UPLOAD_IMAGE_END packet received when no
\* upload is active, also after the previous upload was cancelled by the
\* watchdog or by a size mismatch, is answered with ERROR(INVALID_COMMAND),
\* gets no ACK, changes nothing in storage and notifies nobody.
C20_NoActiveUpload ==
    [][(xf.up # "active" /\ Len(delivered') = 1 /\ NoUploadRequest(delivered'[1]))
          => RejectedOutcome]_vars

\* The same with the watchdog handle null.
C20_HandleNull ==
    [][(transfer_watchdog_task_handle = "null" /\ Len(delivered') = 1
        /\ NoUploadRequest(delivered'[1]))
          => RejectedOutcome]_vars

\* A chunk arrived with no upload ever started and was rejected.
C20_HandleNullWitness ==
    /\ delivered = <<Pkt(CMD_UPLOAD_IMAGE_DATA, <<7>>)>>
    /\ Reported(tx, INVALID_COMMAND)
    /\ transfer_watchdog_task_handle = "null"
    /\ xf.up = "none"

\* ------------------------------------------------------------------------
\* The start of an upload
\* ------------------------------------------------------------------------
\* The engine at rest: no watchdog recorded or alive, no sender, no handle.
Idle ==
    /\ transfer_watchdog_task_handle = "null"
    /\ wdPc = "none"
    /\ ~SenderAlive(senders)
    /\ ~file.open

UploadStart(p) == p.command = CMD_UPLOAD_IMAGE_START /\ Len(p.data) = 5

UploadStarted(p) ==
    /\ file' = [open |-> TRUE, path |-> UPLOAD_TEMP_PATH, mode |-> "w", pos |-> 0]
    /\ upload_path' = get_image_path(p.data[1])
    /\ upload_bytes_received' = 0
    /\ upload_total_size' = LE32(p.data)
    /\ transfer_watchdog_task_handle' = "set" /\ wdPc' = "wait"
    /\ tx' = <<AckPacket>>

UploadRefused ==
    /\ Reported(tx', FILE_ERROR)
    /\ ~Acked(tx')
    /\ Idle'

\* C21: a well-formed UPLOAD_IMAGE_START that finds the engine idle either
\* fails to open /upload_temp, reports ERROR(FILE_ERROR) with no ACK, starts
\* no watchdog and leaves the engine idle, or records the target path, the
\* declared size and a byte count of 0, starts the watchdog and sends ACK;
\* in no state is the request acknowledged without the upload being started.
C21_StartUpload ==
    [][\A p \in HostPackets :
          (UploadStart(p) /\ delivered' = <<p>>)
             => /\ Acked(tx') => UploadStarted(p)
                /\ Idle => IF file'.open THEN UploadStarted(p) ELSE UploadRefused]_vars

\* The staging file did not open for a request that found the engine idle.
C21_Witness ==
    /\ Len(delivered) = 1 /\ UploadStart(delivered[1])
    /\ Reported(tx, FILE_ERROR)
    /\ Idle

\* The request accepted after an upload of two bytes had been completed.
C21_Accepted ==
    /\ Len(delivered) = 1 /\ UploadStart(delivered[1])
    /\ tx = <<AckPacket>>
    /\ upload_bytes_received = 0
    /\ fs[get_image_path(0)].data = <<8, 9>>

\* C22: a further UPLOAD_IMAGE_START that arrives while an upload is active is
\* answered with ERROR(TRANSFER_IN_PROGRESS) alone and leaves the target
\* path, the declared size, the byte count, the staging file, the file handle
\* and the watchdog of the active upload as they were.
C22_SecondUpload ==
    [][\A p \in HostPackets \cup SecondStarts :
          (UploadStart(p) /\ delivered' = <<p>> /\ xf.up = "active")
             => /\ tx' = <<Pkt(CMD_ERROR, <<TRANSFER_IN_PROGRESS>>)>>
                /\ fwd' = <<>> /\ notified' = <<>>
                /\ transferVars' = transferVars]_vars

\* A start for another image was rejected with a chunk of the first upload
\* already written.
C22_Witness ==
    /\ delivered = <<Pkt(CMD_UPLOAD_IMAGE_START, <<1>> \o U32LE(1))>>
    /\ Reported(tx, TRANSFER_IN_PROGRESS)
    /\ xf.up = "active"
    /\ upload_path = get_image_path(0)
    /\ upload_bytes_received = 1
    /\ file.open /\ fs[UPLOAD_TEMP_PATH].data = <<7>>
    /\ wdPc = "wait"

\* ------------------------------------------------------------------------
\* Fatal errors of a transfer
\* ------------------------------------------------------------------------
ShortWriteReported ==
    /\ Len(delivered) = 1 /\ delivered[1].command = CMD_UPLOAD_IMAGE_DATA
    /\ Reported(tx, FILE_ERROR)
    /\ xf.up = "failed"

MismatchReported ==
    /\ delivered = <<EndPacket>>
    /\ Reported(tx, INVALID_COMMAND)
    /\ xf.up = "failed"

TimeoutReported == Reported(tx, TRANSFER_TIMEOUT)

Released ==
    /\ ~file.open
    /\ transfer_watchdog_task_handle = "null"
    /\ wdPc = "none"

\* C23: when the ERROR packet of a fatal transfer error (short write, size
\* mismatch at the end, watchdog expiry) has been sent, the file handle is
\* closed and no watchdog task is running or recorded.
C23_ErrorOrder ==
    (~crashed /\ (ShortWriteReported \/ MismatchReported \/ TimeoutReported)) => Released

\* The short write alone.
C23_ShortWriteOrder == (~crashed /\ ShortWriteReported) => Released

\* The watchdog expiry alone.
C23_TimeoutOrder == (~crashed /\ TimeoutReported) => Released

\* A write that stores one byte less than asked, every other storage call
\* succeeding.
WriteFails == [AllOk EXCEPT !.writeOk = FALSE]

\* The step that dispatches a chunk to an active upload with its handle open
\* and answers ERROR(FILE_ERROR): the write stored fewer bytes than the chunk
\* holds, through a failing write or through a handle not open for writing.
ShortWrite ==
    /\ xf.up = "active"
    /\ file.open
    /\ \E d \in ChunkData, o \in {AllOk, WriteFails} :
          Assign(Dispatch(Fresh, Pkt(CMD_UPLOAD_IMAGE_DATA, d), o))
    /\ Reported(tx', FILE_ERROR)

ShortWriteOutcome ==
    /\ transfer_watchdog_task_handle' = "null" /\ wdPc' = "none"
    /\ ~file'.open
    /\ ~fs'[UPLOAD_TEMP_PATH].exists
    /\ upload_path' = NoPath
    /\ CountOf(tx', CMD_ERROR) = 1
    /\ ~Acked(tx')
    /\ upload_bytes_received' = upload_bytes_received

\* C24: a chunk write during an active upload that stores fewer bytes than
\* the chunk holds stops the watchdog, closes the handle, removes
\* /upload_temp, clears the target path, reports ERROR(FILE_ERROR) with no
\* ACK, leaves the byte count as it was and transfer_in_progress() false.
C24_ShortWrite == [][ShortWrite => ShortWriteOutcome]_vars

\* The second chunk of an upload was not written, one byte being stored.
C24_Witness ==
    /\ delivered = <<Pkt(CMD_UPLOAD_IMAGE_DATA, <<7>>)>>
    /\ Reported(tx, FILE_ERROR)
    /\ xf.up = "failed" /\ ~xf.dl
    /\ xf.sent = <<7, 7>>
    /\ upload_bytes_received = 1
    /\ transfer_watchdog_task_handle = "null"

\* ------------------------------------------------------------------------
\* The watchdog of an upload and the packets that kick it (SpecKick)
\* ------------------------------------------------------------------------
KickTickMs == 500
MaxGap == 3

KickPackets ==
    {Pkt(CMD_UPLOAD_IMAGE_START, <<0>> \o U32LE(2)),
     Pkt(CMD_UPLOAD_IMAGE_DATA, <<7>>), AckPacket, EndPacket}

RecvKick == Recv(KickPackets)

\* KickTickMs pass for the watchdog blocked in its take and for the host.
TickKick ==
    /\ ~crashed
    /\ ~TaskReady
    /\ wdPc = "wait"
    /\ Assign([Fresh EXCEPT !.wdElapsed = @ + KickTickMs])
    /\ xf' = [xf EXCEPT !.last = "other", !.gap = Min(@ + KickTickMs, MaxGap * KickTickMs)]
    /\ UNCHANGED <<wireVars, codecVars, now, obs>>

NextKick ==
    \/ RecvKick
    \/ WdTake
    \/ WdTimeout
    \/ WdCancel
    \/ TickKick

\* One upload after another with chunks and acknowledgements at any
\* multiple of KickTickMs, no download.
SpecKick == InitXfer /\ [][NextKick]_vars

\* C25: during an active transfer every received chunk and every received
\* acknowledgement puts the watchdog's deadline off by a full window: the
\* watchdog reports TRANSFER_TIMEOUT for an active upload only when no chunk
\* and no acknowledgement has arrived for PACKET_TIMEOUT_MS.
C25_WatchdogKick ==
    [][(xf.up = "active" /\ wdPc = "wait" /\ wdPc' = "cancel")
          => xf.gap >= PACKET_TIMEOUT_MS]_vars

\* The chunks alone: the same with no acknowledgement received since the
\* last chunk.
C25_ChunkKick ==
    [][(xf.up = "active" /\ wdPc = "wait" /\ wdPc' = "cancel" /\ transfer_waiting_for_ack = 0)
          => xf.gap >= PACKET_TIMEOUT_MS]_vars

\* The watchdog waits with half of a window gone since a chunk kicked it.
C25_ChunkKickWitness ==
    /\ xf.up = "active" /\ xf.sent = <<7>>
    /\ wdPc = "wait" /\ wdElapsed = KickTickMs /\ xf.gap = KickTickMs

\* ------------------------------------------------------------------------
\* Termination of the sender task
\* ------------------------------------------------------------------------
\* A task that can run is scheduled, and time passes for a task blocked in a
\* take with a timeout; nothing is asked of the host.
SpecDownloadFair ==
    /\ SpecDownload
    /\ WF_vars(SenderRun)
    /\ WF_vars(SenderTimeout)
    /\ WF_vars(TickXfer)

\* A pass of the sender that ends in the wait for an acknowledgement has sent
\* one DATA packet and moved the read position forward.
SenderAdvances ==
    \A s \in 1..MaxSenders :
        (senders[s].pc \in {"start", "loop"} /\ senders'[s].pc = "wait")
            => /\ file'.pos > file.pos
               /\ Len(tx') = 1 /\ tx'[1].command = CMD_DOWNLOAD_IMAGE_DATA
               /\ Len(tx'[1].data) = file'.pos - file.pos

\* A wait that runs out puts the sender back into its loop.
TimeoutGoesOn ==
    \A s \in 1..MaxSenders :
        (senders[s].pc = "wait" /\ senders'[s].pc # "wait") => senders'[s].pc = "loop"

\* The pass that finds the source exhausted closes the file, sends
\* DOWNLOAD_IMAGE_END and ends the task.
SenderEnds ==
    \A s \in 1..MaxSenders :
        (senders[s].pc # "none" /\ senders'[s].pc = "none" /\ ~xf'.faults)
            => /\ ~file'.open
               /\ tx' = <<Pkt(CMD_DOWNLOAD_IMAGE_END, <<>>)>>
               /\ file.pos = Len(fs[DownloadPath].data)

\* C26: the sender task of a download ends for every source file, whether or
\* not an acknowledgement arrives: a wait that times out goes on with the
\* loop, every pass that sends a chunk moves the read position forward, and
\* the pass that finds the source exhausted closes the file, sends
\* DOWNLOAD_IMAGE_END and ends without a further wait.
C26_SenderTerminates ==
    /\ SenderAlive(senders) ~> ~SenderAlive(senders)
    /\ [][SenderAdvances /\ TimeoutGoesOn /\ SenderEnds]_vars

\* A download of 513 bytes has ended with two DATA packets and END, the host
\* having sent nothing after the request.
C26_Witness ==
    /\ xf.dl /\ ~xf.faults /\ ~SenderAlive(senders)
    /\ ~file.open
    /\ Len(fs[DownloadPath].data) = 513
    /\ Len(xf.out) = 3
    /\ tx = <<Pkt(CMD_DOWNLOAD_IMAGE_END, <<>>)>>

\* ------------------------------------------------------------------------
\* Acknowledgements left over from before a download
\* ------------------------------------------------------------------------
\* C27: an acknowledgement signalled before a download started is not there
\* for the sender to take: a DOWNLOAD_IMAGE_START that creates a sender task
\* leaves _transfer_waiting_for_ack empty, and the semaphore is given only by
\* the receipt of an ACK packet.
C27_StaleAckDrained ==
    [][/\ (Len(delivered') = 1 /\ delivered'[1].command = CMD_DOWNLOAD_IMAGE_START
           /\ senders' # senders)
          => transfer_waiting_for_ack' = 0
       /\ (transfer_waiting_for_ack = 0 /\ transfer_waiting_for_ack' = 1)
          => delivered' = <<AckPacket>>]_vars

\* A download was started with an acknowledgement pending from an upload.
C27_Witness ==
    /\ xf.drained
    /\ SenderAlive(senders)
    /\ transfer_waiting_for_ack = 0

\* ------------------------------------------------------------------------
\* The serial output byte by byte (SpecWire)
\* ------------------------------------------------------------------------
\* Commands of ProtocolConstants.h that only Controller uses.
CMD_PONG == 17
CMD_SLIDER_VALUE == 48

SliderPayload == <<0, 50>>
ChunkOnWire == <<1, 2>>

\* The packets a task may be sending: comm_task the answers of
\* handle_file_transfer and of Controller::on_packet, the watchdog its
\* ERROR(TRANSFER_TIMEOUT), the sender its DATA and END packets, segment_task
\* a SLIDER_VALUE.
WriterPackets(w) ==
    CASE w = "comm" -> {send_packet(CMD_ACK, <<>>), send_packet(CMD_PONG, <<>>),
                        send_packet(CMD_ERROR, <<INVALID_COMMAND>>)}
      [] w = "watchdog" -> {send_packet(CMD_ERROR, <<TRANSFER_TIMEOUT>>)}
      [] w = "sender" -> {send_packet(CMD_DOWNLOAD_IMAGE_DATA, ChunkOnWire),
                          send_packet(CMD_DOWNLOAD_IMAGE_END, <<>>)}
      [] OTHER -> {send_packet(CMD_SLIDER_VALUE, SliderPayload)}

\* comm_task and segment_task run from setup() on; the watchdog task and the
\* send image task exist while their transfer runs.
TaskExists(w) ==
    CASE w = "watchdog" -> wdPc # "none"
      [] w = "sender" -> SenderAlive(senders)
      [] OTHER -> TRUE

\* Task w enters send_packet.
SendBegin(w) ==
    /\ ~crashed
    /\ TaskExists(w)
    /\ writers[w] = <<>>
    /\ \E bytes \in WriterPackets(w) : writers' = [writers EXCEPT ![w] = bytes]
    /\ UNCHANGED <<wire, codecVars, transferVars, logVars, now, obs, xf>>

\* Task w makes the next Serial.write of its send_packet call. Nothing in
\* send_packet keeps another task from being scheduled between two writes.
SerialWrite(w) ==
    /\ ~crashed
    /\ writers[w] # <<>>
    /\ wire' = [by |-> w, byte |-> Head(writers[w]), left |-> Len(writers[w]) - 1]
    /\ writers' = [writers EXCEPT ![w] = Tail(@)]
    /\ UNCHANGED <<codecVars, transferVars, logVars, now, obs, xf>>

\* The engine with UPLOAD_IMAGE_START(0, size 2) accepted and the watchdog in
\* its first wait.
Uploading ==
    /\ transfer_watchdog_task_handle = "set" /\ wdPc = "wait" /\ wdElapsed = 0
    /\ transfer_watchdog_reset = 0 /\ transfer_waiting_for_ack = 0
    /\ upload_path = get_image_path(0)
    /\ upload_total_size = 2 /\ upload_bytes_received = 0
    /\ file = [open |-> TRUE, path |-> UPLOAD_TEMP_PATH, mode |-> "w", pos |-> 0]
    /\ senders = [s \in 1..MaxSenders |-> NoSender]
    /\ images_dir = TRUE
    /\ fs = [p \in Paths |-> IF p = get_image_path(0)
                             THEN [exists |-> TRUE, data |-> ImageData]
                             ELSE IF p = UPLOAD_TEMP_PATH
                             THEN [exists |-> TRUE, data |-> <<>>] ELSE Absent]
    /\ crashed = FALSE

\* The engine with DOWNLOAD_IMAGE_START(0) accepted and the sender task
\* created.
Downloading ==
    /\ transfer_watchdog_task_handle = "null" /\ wdPc = "none" /\ wdElapsed = 0
    /\ transfer_watchdog_reset = 1 /\ transfer_waiting_for_ack = 0
    /\ upload_path = NoPath
    /\ upload_total_size = 0 /\ upload_bytes_received = 0
    /\ file = [open |-> TRUE, path |-> get_image_path(0), mode |-> "r", pos |-> 0]
    /\ senders = [s \in 1..MaxSenders |-> [pc |-> "start", elapsed |-> 0]]
    /\ images_dir = TRUE
    /\ fs = [p \in Paths |-> IF p = get_image_path(0)
                             THEN [exists |-> TRUE, data |-> ImageData] ELSE Absent]
    /\ crashed = FALSE

\* The engine at rest, with an upload accepted, or with a download running.
InitWire ==
    /\ InitCodec
    /\ xf = NoXf
    /\ \/ /\ InitTransfer
          /\ images_dir = TRUE
          /\ fs = [p \in Paths |-> IF p = get_image_path(0)
                                   THEN [exists |-> TRUE, data |-> ImageData] ELSE Absent]
       \/ Uploading /\ writers = [w \in Writers |-> <<>>] /\ wire = NoWrite
       \/ Downloading /\ writers = [w \in Writers |-> <<>>] /\ wire = NoWrite

NextWire ==
    \/ \E w \in Writers : SendBegin(w)
    \/ \E w \in Writers : SerialWrite(w)

\* The tasks of the firmware inside send_packet, scheduled byte by byte.
SpecWire == InitWire /\ [][NextWire]_vars

\* C28: the bytes of one outbound packet are written contiguously: the write
\* that follows a byte which is not the last of its packet is made by the same
\* task and is the next byte of that packet.
C28_FrameAtomic ==
    [][(wire' # wire /\ wire.left > 0)
          => (wire'.by = wire.by /\ wire'.left = wire.left - 1)]_vars

\* The same for segment_task against comm_task alone, the two tasks that run
\* whether a transfer is under way or not.
C28_SliderAgainstComm ==
    [][(wire' # wire /\ wire.left > 0 /\ wire.by = "segment" /\ wdPc = "none"
        /\ ~SenderAlive(senders))
          => wire'.by = "segment"]_vars

\* ------------------------------------------------------------------------
\* The chunk handler against the watchdog task (SpecRace)
\* ------------------------------------------------------------------------
RaceChunk == Pkt(CMD_UPLOAD_IMAGE_DATA, <<7>>)
RacePackets == {Pkt(CMD_UPLOAD_IMAGE_START, <<0>> \o U32LE(2)), EndPacket}

\* receive_file_data from the write on (lines 216-227) and the ACK of its
\* caller (lines 131-133).
write_chunk(t, data, o) ==
    LET w == FileWrite(t, data, o)
    IN  IF w.written # Len(data)
        THEN send_err(cancel_transfer(stop_transfer_watchdog(send_log(w.t), o), o), FILE_ERROR)
        ELSE Send([w.t EXCEPT !.received = (@ + w.written) % U32], CMD_ACK, <<>>)

\* A start or an end, handled in one piece.
RaceRecv == commPc = "idle" /\ Recv(RacePackets)

\* A chunk is dispatched: transfer_in_progress() holds (line 125), _file is
\* open (line 208) and the watchdog is kicked (line 215).
ChunkBegin ==
    /\ ~crashed
    /\ commPc = "idle"
    /\ transfer_in_progress(Cur)
    /\ file.open
    /\ upload_bytes_received + Len(RaceChunk.data) <= MaxUploadBytes
    /\ Assign([Fresh EXCEPT !.wdSem = 1, !.delivered = <<RaceChunk>>])
    /\ commPc' = "write"
    /\ xf' = [xf EXCEPT !.last = "other"]
    /\ UNCHANGED <<wireVars, in_packet, rx_index, rx_buffer, expected_size,
                   last_in_data_time, last_in_packet_time, serial, hostQ, now, obs>>

\* The chunk is written and answered.
ChunkWrite ==
    /\ ~crashed
    /\ commPc = "write"
    /\ \E t1 \in {write_chunk([Fresh EXCEPT !.delivered = delivered], RaceChunk.data, o) :
                    o \in Oracles} :
          /\ Assign(t1)
          /\ xf' = XfAfterRecv(RaceChunk, t1)
    /\ commPc' = "idle"
    /\ UNCHANGED <<wireVars, in_packet, rx_index, rx_buffer, expected_size,
                   last_in_data_time, last_in_packet_time, serial, hostQ, now, obs>>

NextRace ==
    \/ RaceRecv
    \/ ChunkBegin
    \/ ChunkWrite
    \/ WdTake
    \/ WdTimeout
    \/ WdCancel
    \/ TickXfer

\* Uploads whose chunks are handled in two steps, the watchdog task being
\* scheduled at any point.
SpecRace == InitXfer /\ [][NextRace]_vars

\* C29: the watchdog's cancel_transfer does not run between the steps of
\* receive_file_data: the write of a chunk finds the handle open, the staging
\* file in place and the target path set, as the check before it did.
C29_NoRace ==
    (~crashed /\ commPc = "write") =>
        /\ file.open
        /\ fs[UPLOAD_TEMP_PATH].exists
        /\ upload_path # NoPath

\* The interleaving itself: the watchdog task does not cancel while the
\* receive path is inside receive_file_data.
C29_NoCancelInside == [][~(commPc = "write" /\ wdPc = "cancel" /\ wdPc' = "none")]_vars

\* Every chunk answered with ACK was written to an open staging file.
C29_AckedMeansWritten ==
    [][(commPc = "write" /\ commPc' = "idle" /\ Acked(tx'))
          => (file.open /\ file'.open
              /\ fs'[UPLOAD_TEMP_PATH].data = fs[UPLOAD_TEMP_PATH].data \o RaceChunk.data)]_vars

\* ------------------------------------------------------------------------
\* Malformed start requests
\* ------------------------------------------------------------------------
MalformedStart(p) ==
    \/ p.command = CMD_UPLOAD_IMAGE_START /\ Len(p.data) # 5
    \/ p.command = CMD_DOWNLOAD_IMAGE_START /\ Len(p.data) # 1

\* C30: a start request of the wrong length is answered with one
\* ERROR(INVALID_DATA) and nothing else, is not forwarded to on_packet, and
\* leaves the files, the tasks and the transfer state as they were.
C30_MalformedStart ==
    [][\A p \in HostPackets :
          (MalformedStart(p) /\ delivered' = <<p>>)
             => /\ tx' = <<Pkt(CMD_ERROR, <<INVALID_DATA>>)>>
                /\ fwd' = <<>> /\ notified' = <<>>
                /\ transferVars' = transferVars]_vars

\* An over-long download request arrived in the middle of an upload, one
\* chunk written, and was rejected.
C30_Witness ==
    /\ delivered = <<Pkt(CMD_DOWNLOAD_IMAGE_START, <<0, 0>>)>>
    /\ tx = <<Pkt(CMD_ERROR, <<INVALID_DATA>>)>>
    /\ xf.up = "active"
    /\ file.open /\ upload_bytes_received = 1
    /\ ~SenderAlive(senders)

\* A short upload request arrived with a sender task at work.
C30_WitnessDownload ==
    /\ delivered = <<Pkt(CMD_UPLOAD_IMAGE_START, <<0, 1, 0, 0>>)>>
    /\ tx = <<Pkt(CMD_ERROR, <<INVALID_DATA>>)>>
    /\ SenderAlive(senders)

====
